---- MODULE Spec2Model ----
(***************************************************************************)
(* TerminalService (apps/server/src/services/terminal-service.ts): the PTY *)
(* session registry, its output throttling/batching, the resize            *)
(* suppression window and the scrollback buffer.                           *)
(*                                                                         *)
(* Strings.  A JavaScript string of process output is a sequence of runs   *)
(* <<start, len>>: the characters at positions start .. start+len-1 of the *)
(* stream the session's process has produced.  Every character the process*)
(* produces has its own position, so duplication, loss and reordering of   *)
(* output are all visible.  Runs are kept merged (two adjacent runs are    *)
(* never contiguous, no run is empty), so equal strings are equal values.  *)
(***************************************************************************)
EXTENDS Integers, Sequences, FiniteSets, TLC

(* ------------------------------ bounds --------------------------------- *)
MaxIds == 2          \* sessions ever created in one run
MaxChunks == 2       \* onData events in one run, all sessions together
MaxTimers == 2       \* cap on outstanding timers of one purpose per session
MaxWrites == 1       \* write calls forwarded to one process

(* ------------------------- program constants --------------------------- *)
MAX_SCROLLBACK_SIZE == 50000
MIN_MAX_SESSIONS == 1
MAX_MAX_SESSIONS == 500
DEFAULT_MAX_SESSIONS == 1000
OUTPUT_BATCH_SIZE == 4096

Ids == 1 .. MaxIds
NoId == 0

\* lengths of the chunks the process hands to onData (a stream's 'data'
\* event never carries an empty string): 10000 is two batches and a rest,
\* 28672 is seven whole batches, and two chunks of it overflow the scrollback
ChunkSizes == {10000, 28672}
\* values of TERMINAL_MAX_SESSIONS at startup (unset: the default)
EnvMaxSessions == {1, 2, DEFAULT_MAX_SESSIONS}
\* arguments of setMaxSessions: below, inside and above the valid range
LimitInputs == {MIN_MAX_SESSIONS - 1, 1, 2, MAX_MAX_SESSIONS + 1}
ExitCodes == {0, 1}
\* the callbacks handed to onData and onExit
Callbacks == {"a", "b"}

(* ------------------------------ strings -------------------------------- *)
EmptyStr == << >>

Chunk(start, n) == IF n = 0 THEN EmptyStr ELSE << <<start, n>> >>

RECURSIVE StrLen(_)
StrLen(s) == IF s = << >> THEN 0 ELSE s[1][2] + StrLen(Tail(s))

\* a + b
StrCat(a, b) ==
  IF a = << >> THEN b
  ELSE IF b = << >> THEN a
  ELSE LET l == a[Len(a)]
       IN  IF l[1] + l[2] = b[1][1]
           THEN SubSeq(a, 1, Len(a) - 1) \o << <<l[1], l[2] + b[1][2]>> >> \o Tail(b)
           ELSE a \o b

\* s.slice(n), n >= 0
RECURSIVE SliceFrom(_, _)
SliceFrom(s, n) ==
  IF n = 0 \/ s = << >> THEN s
  ELSE IF n >= s[1][2] THEN SliceFrom(Tail(s), n - s[1][2])
  ELSE << <<s[1][1] + n, s[1][2] - n>> >> \o Tail(s)

\* s.slice(0, n), n >= 0
RECURSIVE SliceTo(_, _)
SliceTo(s, n) ==
  IF n = 0 \/ s = << >> THEN << >>
  ELSE IF n >= s[1][2] THEN <<s[1]>> \o SliceTo(Tail(s), n - s[1][2])
  ELSE << <<s[1][1], n>> >>

\* s.slice(-n), n > 0
SliceLast(s, n) == IF StrLen(s) > n THEN SliceFrom(s, StrLen(s) - n) ELSE s

(* ------------------------------- the host ------------------------------ *)
\* os.platform()
Platforms == {"linux", "darwin", "win32", "freebsd"}

\* /proc/version: absent, present but unreadable, or its text
VersionTexts ==
  {"Linux version 6.8.0-45-generic",
   "Linux version 4.4.0-19041-Microsoft",
   "Linux version 5.15.153.1-microsoft-standard-WSL2",
   "Linux version 6.6.36-WSL2-custom"}
ProcVersions == {"absent", "unreadable"} \cup VersionTexts

\* version.toLowerCase().includes(marker), for the two markers tested
LowerIncludes(text, marker) ==
  CASE marker = "microsoft" ->
         text \in {"Linux version 4.4.0-19041-Microsoft",
                   "Linux version 5.15.153.1-microsoft-standard-WSL2"}
    [] marker = "wsl" ->
         text \in {"Linux version 5.15.153.1-microsoft-standard-WSL2",
                   "Linux version 6.6.36-WSL2-custom"}
    [] OTHER -> FALSE

pwsh == "C:\\Windows\\System32\\WindowsPowerShell\\v1.0\\powershell.exe"
pwshCore == "C:\\Program Files\\PowerShell\\7\\pwsh.exe"

\* the files detectShell looks for
ShellFiles == {"/usr/bin/fish", "/bin/bash", "/bin/zsh", pwshCore, pwsh}

\* a host; an environment variable that is unset or empty is ""
Hosts ==
  {h \in [platform : Platforms,
          procVersion : ProcVersions,
          WSL_DISTRO_NAME : {"", "Ubuntu"},
          WSLENV : {"", "WT_SESSION"},
          SHELL : {"", "/usr/bin/fish"},
          exists : SUBSET ShellFiles] :
     h.platform \in {"darwin", "win32"} => h.procVersion = "absent"}

\* the host of the views that do not vary it
PlainLinux ==
  [platform |-> "linux", procVersion |-> "Linux version 6.8.0-45-generic",
   WSL_DISTRO_NAME |-> "", WSLENV |-> "", SHELL |-> "/usr/bin/fish",
   exists |-> {"/usr/bin/fish", "/bin/bash"}]

(* -------------------------------- isWSL -------------------------------- *)
isWSL(h) ==
  IF h.procVersion # "absent"
  THEN IF h.procVersion = "unreadable"
       THEN FALSE      \* readFileSync throws, the catch block falls to `return false`
       ELSE LowerIncludes(h.procVersion, "microsoft") \/ LowerIncludes(h.procVersion, "wsl")
  ELSE IF h.WSL_DISTRO_NAME # "" \/ h.WSLENV # "" THEN TRUE ELSE FALSE

(* ----------------------------- detectShell ----------------------------- *)
\* (no arguments for any shell)
LoginArgs_none == << >>

LoginArgs == <<"--login">>

\* `a || b` on strings
OrElse(a, b) == IF a # "" THEN a ELSE b

detectShell(h) ==
  IF h.platform = "linux" /\ isWSL(h)
  THEN LET userShell == OrElse(h.SHELL, "/bin/bash")
       IN  IF userShell \in h.exists
           THEN [shell |-> userShell, args |-> LoginArgs]
           ELSE [shell |-> "/bin/bash", args |-> LoginArgs]
  ELSE IF h.platform = "win32"
  THEN IF pwshCore \in h.exists THEN [shell |-> pwshCore, args |-> << >>]
       ELSE IF pwsh \in h.exists THEN [shell |-> pwsh, args |-> << >>]
       ELSE [shell |-> "cmd.exe", args |-> << >>]
  ELSE IF h.platform = "darwin"
  THEN IF h.SHELL # "" /\ h.SHELL \in h.exists
       THEN [shell |-> h.SHELL, args |-> LoginArgs]
       ELSE IF "/bin/zsh" \in h.exists THEN [shell |-> "/bin/zsh", args |-> LoginArgs]
       ELSE [shell |-> "/bin/bash", args |-> LoginArgs]
  ELSE IF h.SHELL # "" /\ h.SHELL \in h.exists
       THEN [shell |-> h.SHELL, args |-> LoginArgs]
       ELSE IF "/bin/bash" \in h.exists THEN [shell |-> "/bin/bash", args |-> LoginArgs]
       ELSE [shell |-> "/bin/sh", args |-> << >>]

(* ----------------------- resolveWorkingDirectory ----------------------- *)
\* A path is a sequence of characters.
\* os.homedir()
homeDir == <<"/", "h">>

\* the cwd option of createSession; an option that is absent or empty is << >>
RequestedCwds ==
  {<< >>,
   <<" ">>,
   <<"/", "p">>,
   <<" ", "/", "p", " ">>,
   <<"/", "/", "p">>,
   <<"/", "/", "/", "p">>,
   <<"/", "/", "w", "s", "l", "/", "p">>,
   <<"p">>}

\* what fs.statSync finds: a directory, something else, nothing (it throws
\* ENOENT) or a path it may not inspect (it throws EACCES)
Stats == {"directory", "file", "missing", "denied"}

RECURSIVE TrimStart(_)
TrimStart(s) == IF s # << >> /\ s[1] = " " THEN TrimStart(Tail(s)) ELSE s
RECURSIVE TrimEnd(_)
TrimEnd(s) ==
  IF s # << >> /\ s[Len(s)] = " " THEN TrimEnd(SubSeq(s, 1, Len(s) - 1)) ELSE s
\* s.trim()
Trim(s) == TrimEnd(TrimStart(s))

\* s.startsWith(prefix)
StartsWith(s, prefix) ==
  Len(s) >= Len(prefix) /\ SubSeq(s, 1, Len(prefix)) = prefix

\* the path handed to fs.statSync
CleanPath(requestedCwd) ==
  LET cwd == Trim(requestedCwd)
  IN  IF StartsWith(cwd, <<"/", "/">>) /\ ~StartsWith(cwd, <<"/", "/", "w", "s", "l">>)
      THEN Tail(cwd) ELSE cwd

\* a stat answer that the request can get: fs.statSync is not called for
\* an absent request ("none"), and the empty path names nothing
CanStat(requestedCwd, stat) ==
  IF requestedCwd = << >> THEN stat = "none"
  ELSE /\ stat \in Stats
       /\ CleanPath(requestedCwd) = << >> => stat = "missing"

\* (the requested path returned whatever is found there)
resolveWorkingDirectory_unchecked(requestedCwd, stat) ==
  IF requestedCwd = << >> THEN homeDir ELSE CleanPath(requestedCwd)

resolveWorkingDirectory(requestedCwd, stat) ==
  IF requestedCwd = << >> THEN homeDir
  ELSE IF stat = "directory" THEN CleanPath(requestedCwd)
  ELSE homeDir

(* ------------------------------- state --------------------------------- *)
VARIABLES
  sessions,      \* this.sessions: the ids that have an entry in the Map
  session,       \* the TerminalSession objects, by id (they outlive their entry)
  maxSessions,   \* module-level maxSessions
  nextId,        \* ids handed out so far are 1 .. nextId-1
  pty,           \* the child process of each id: none, running, killed, exited
  flushTimers,   \* outstanding setTimeout(flushOutput) timers of each session
  settleTimers,  \* outstanding resize-settle timers of each session
  produced,      \* characters the process of each id has emitted so far
  chunks,        \* onData events of each id so far
  accepted,      \* output of each id that passed the suppression test
  dropped,       \* output of each id that was discarded by the suppression test
  discarded,     \* output removed from outputBuffer by getScrollbackAndClearPending
  delivered,     \* the data events of each id, in order: a sequence of strings
  exits,         \* the exit notifications of each id, in order
  killed,        \* ids for which killSession found an entry and returned
  exitCallbacks, \* this.exitCallbacks: the subscribed exit callbacks
  written,       \* write calls forwarded to the process of each id
  host,          \* what the service finds on its host: platform, /proc/version,
                 \* environment variables, shell files
  meta,          \* cwd and shell of the session object of each id
  dataCallbacks, \* this.dataCallbacks: the subscribed data callbacks
  last           \* the last step: the call and what it returned, or the callback

vars == <<sessions, session, maxSessions, nextId, pty, flushTimers, settleTimers,
          produced, chunks, accepted, dropped, discarded, delivered, exits,
          killed, exitCallbacks, written, host, meta, dataCallbacks, last>>

NewSession ==
  [scrollbackBuffer |-> EmptyStr, outputBuffer |-> EmptyStr,
   flushTimeout |-> "null", resizeInProgress |-> FALSE,
   resizeDebounceTimeout |-> "null"]

\* a step: the call (with its suppressOutput, limit, callback or cwd argument
\* and what fs.statSync found, its result, and the string or argument list it
\* returned) or the callback that ran (onExit: with the exit code the
\* process reported; flushOutput: with the callbacks it invoked)
Call(op, id, result) ==
  [op |-> op, id |-> id, result |-> result,
   suppressOutput |-> FALSE, limit |-> 0, exitCode |-> 0, value |-> EmptyStr,
   cb |-> "none", to |-> {}, args |-> << >>, requestedCwd |-> << >>,
   stat |-> "none"]

\* what createSession stores of a session besides its buffers
NoMeta == [cwd |-> << >>, shell |-> ""]

InitState ==
  /\ sessions = {}
  /\ session = [i \in Ids |-> NewSession]
  /\ maxSessions \in EnvMaxSessions
  /\ nextId = 1
  /\ pty = [i \in Ids |-> "none"]
  /\ flushTimers = [i \in Ids |-> 0]
  /\ settleTimers = [i \in Ids |-> 0]
  /\ produced = [i \in Ids |-> 0]
  /\ chunks = [i \in Ids |-> 0]
  /\ accepted = [i \in Ids |-> EmptyStr]
  /\ dropped = [i \in Ids |-> EmptyStr]
  /\ discarded = [i \in Ids |-> EmptyStr]
  /\ delivered = [i \in Ids |-> << >>]
  /\ exits = [i \in Ids |-> << >>]
  /\ killed = {}
  /\ exitCallbacks = {}
  /\ written = [i \in Ids |-> 0]
  /\ meta = [i \in Ids |-> NoMeta]
  /\ dataCallbacks = {}
  /\ last = Call("none", NoId, "void")

Init == InitState /\ host \in Hosts


(* ------------------------------ timers --------------------------------- *)
\* A timer field holds "null", or a handle that is "armed" (its timer is
\* outstanding) or "stale" (its timer has fired or was cleared).

\* the field after clearTimeout(field)
Cleared(h) == IF h = "armed" THEN "stale" ELSE h
\* (clearTimeout cancels nothing)
AfterClear_kept(h, n) == n

\* outstanding timers after clearTimeout(field)
AfterClear(h, n) == IF h = "armed" THEN n - 1 ELSE n
\* the field once one of the n outstanding timers has fired
Fired(h, n) == IF h = "armed" /\ n = 1 THEN "stale" ELSE h

(* ------------------------- setMaxSessions ------------------------------ *)
\* (no upper end)
InRange_noUpper(limit) == limit >= MIN_MAX_SESSIONS

\* (no lower end)
InRange_noLower(limit) == limit <= MAX_MAX_SESSIONS

InRange(limit) == limit >= MIN_MAX_SESSIONS /\ limit <= MAX_MAX_SESSIONS

SetMaxSessions(limit) ==
  /\ maxSessions' = IF InRange(limit) THEN limit ELSE maxSessions
  /\ last' = [Call("setMaxSessions", NoId, "void") EXCEPT !.limit = limit]
  /\ UNCHANGED <<sessions, session, nextId, pty, flushTimers, settleTimers,
                 produced, chunks, accepted, dropped, discarded, delivered,
                 exits, killed, exitCallbacks, written,
                 host, meta, dataCallbacks>>

(* --------------------------- createSession ----------------------------- *)
\* (off by one: refuses only above the limit)
AtCapacity_above == Cardinality(sessions) > maxSessions

AtCapacity == Cardinality(sessions) >= maxSessions

\* (the entry inserted before the process is spawned)
AfterFailedSpawn_inserted(registry, id) == registry \cup {id}

\* the registry when pty.spawn has raised: sessions.set is not reached
AfterFailedSpawn(registry, id) == registry

\* createSession({cwd: requestedCwd}) when the id built from Date.now() and
\* Math.random() is id; stat: what fs.statSync finds at the cleaned path
\* ("none" when it is not called); spawn: "spawned", or "throws" when
\* pty.spawn raises.  sessions.set(id, session) replaces the entry of an id
\* that is in use.
CreateSessionWith(id, requestedCwd, stat, spawn) ==
  IF AtCapacity
  THEN /\ last' = Call("createSession", NoId, "null")
       /\ UNCHANGED <<sessions, session, maxSessions, nextId, pty, flushTimers,
                      settleTimers, produced, chunks, accepted, dropped,
                      discarded, delivered, exits, killed,
                      exitCallbacks, written,
                      host, meta, dataCallbacks>>
  ELSE /\ nextId <= MaxIds
       /\ IF spawn = "throws"
          THEN /\ last' = [Call("createSession", NoId, "threw")
                             EXCEPT !.requestedCwd = requestedCwd, !.stat = stat]
               /\ sessions' = AfterFailedSpawn(sessions, id)
               /\ UNCHANGED <<session, maxSessions, nextId, pty,
                              flushTimers, settleTimers, produced, chunks,
                              accepted, dropped, discarded, delivered, exits,
                              killed, exitCallbacks, written,
                              host, meta, dataCallbacks>>
          ELSE /\ sessions' = sessions \cup {id}
               /\ session' = [session EXCEPT ![id] = NewSession]
               /\ meta' = [meta EXCEPT ![id] =
                    [cwd |-> resolveWorkingDirectory(requestedCwd, stat),
                     shell |-> detectShell(host).shell]]
               /\ pty' = [pty EXCEPT ![id] = "running"]
               /\ nextId' = nextId + 1
               /\ last' = [Call("createSession", id, "session")
                             EXCEPT !.requestedCwd = requestedCwd, !.stat = stat]
               /\ UNCHANGED <<maxSessions, flushTimers, settleTimers, produced,
                              chunks, accepted, dropped, discarded, delivered,
                              exits, killed, exitCallbacks, written,
                              host, dataCallbacks>>

\* createSession() with no options, in a run whose ids are all different: the
\* ids are numbered in the order of creation and nextId counts the sessions
\* created so far
CreateSession(spawn) == CreateSessionWith(nextId, << >>, "none", spawn)

(* ------------------------ ptyProcess.onData ---------------------------- *)
RECURSIVE SumOver(_, _)
SumOver(f, S) ==
  IF S = {} THEN 0 ELSE LET x == CHOOSE y \in S : TRUE IN f[x] + SumOver(f, S \ {x})

\* (the suppression test left out)
Suppressed_never(s) == FALSE

Suppressed(s) == s.resizeInProgress

\* (the oldest characters kept: slice(0, MAX_SCROLLBACK_SIZE))
TrimScrollback_oldest(b) ==
  IF StrLen(b) > MAX_SCROLLBACK_SIZE THEN SliceTo(b, MAX_SCROLLBACK_SIZE) ELSE b

TrimScrollback(b) ==
  IF StrLen(b) > MAX_SCROLLBACK_SIZE THEN SliceLast(b, MAX_SCROLLBACK_SIZE) ELSE b

\* (the test left out: every chunk schedules a flush)
FlushScheduled_never(s) == FALSE

\* `session.flushTimeout` is truthy: a flush is taken to be scheduled
FlushScheduled(s) == s.flushTimeout # "null"

\* the process of id hands a chunk of n characters to the onData handler
PtyData(id, n) ==
  /\ pty[id] \in {"running", "killed"}
  /\ SumOver(chunks, Ids) < MaxChunks
  /\ LET data == Chunk(produced[id], n)
         s == session[id]
     IN  /\ produced' = [produced EXCEPT ![id] = @ + n]
         /\ chunks' = [chunks EXCEPT ![id] = @ + 1]
         /\ IF Suppressed(s)
            THEN /\ dropped' = [dropped EXCEPT ![id] = StrCat(@, data)]
                 /\ UNCHANGED <<session, flushTimers, accepted>>
            ELSE /\ accepted' = [accepted EXCEPT ![id] = StrCat(@, data)]
                 /\ IF FlushScheduled(s)
                    THEN UNCHANGED flushTimers
                    ELSE /\ flushTimers[id] < MaxTimers
                         /\ flushTimers' = [flushTimers EXCEPT ![id] = @ + 1]
                 /\ session' = [session EXCEPT ![id] =
                      [s EXCEPT
                         !.scrollbackBuffer = TrimScrollback(StrCat(@, data)),
                         !.outputBuffer = StrCat(@, data),
                         !.flushTimeout = IF FlushScheduled(s) THEN @ ELSE "armed"]]
                 /\ UNCHANGED dropped
  /\ last' = Call("onData", id, "void")
  /\ UNCHANGED <<sessions, maxSessions, nextId, pty, settleTimers, discarded,
                 delivered, exits, killed, exitCallbacks, written,
                 host, meta, dataCallbacks>>

(* ---------------------------- flushOutput ------------------------------ *)
\* (the batch cap left out)
DataToSend_whole(buf) == buf

DataToSend(buf) ==
  IF StrLen(buf) > OUTPUT_BATCH_SIZE THEN SliceTo(buf, OUTPUT_BATCH_SIZE) ELSE buf

\* (the buffer emptied although more than a batch was pending)
Remaining_cleared(buf) == EmptyStr

\* (the batch boundary off by one: slice(OUTPUT_BATCH_SIZE - 1))
Remaining_overlap(buf) ==
  IF StrLen(buf) > OUTPUT_BATCH_SIZE THEN SliceFrom(buf, OUTPUT_BATCH_SIZE - 1) ELSE EmptyStr

\* what flushOutput leaves in outputBuffer
Remaining(buf) ==
  IF StrLen(buf) > OUTPUT_BATCH_SIZE THEN SliceFrom(buf, OUTPUT_BATCH_SIZE) ELSE EmptyStr

\* flushOutput returns at once on an empty buffer
NothingToFlush(buf) == StrLen(buf) = 0

\* (only the first subscriber is invoked)
DataRecipients_first ==
  IF dataCallbacks = {} THEN {} ELSE {CHOOSE cb \in dataCallbacks : TRUE}

\* the callbacks `this.dataCallbacks.forEach` invokes
DataRecipients == dataCallbacks

\* one outstanding flush timer of id fires and runs flushOutput
FlushOutput(id) ==
  /\ flushTimers[id] > 0
  /\ LET s == session[id]
         buf == s.outputBuffer
     IN  IF NothingToFlush(buf)
         THEN /\ session' = [session EXCEPT ![id].flushTimeout =
                               Fired(@, flushTimers[id])]
              /\ flushTimers' = [flushTimers EXCEPT ![id] = @ - 1]
              /\ UNCHANGED delivered
              /\ last' = Call("flushOutput", id, "void")
         ELSE /\ session' = [session EXCEPT ![id] =
                   [s EXCEPT
                      !.outputBuffer = Remaining(buf),
                      !.flushTimeout =
                         IF StrLen(buf) > OUTPUT_BATCH_SIZE THEN "armed" ELSE "null"]]
              /\ flushTimers' = [flushTimers EXCEPT ![id] =
                   IF StrLen(buf) > OUTPUT_BATCH_SIZE THEN @ ELSE @ - 1]
              /\ delivered' = [delivered EXCEPT ![id] = Append(@, DataToSend(buf))]
              /\ last' = [Call("flushOutput", id, "void") EXCEPT !.to = DataRecipients]
  /\ UNCHANGED <<sessions, maxSessions, nextId, pty, settleTimers, produced,
                 chunks, accepted, dropped, discarded, exits, killed,
                 exitCallbacks, written,
                 host, meta, dataCallbacks>>

(* ------------------------- ptyProcess.onExit --------------------------- *)
\* (only the first subscriber is invoked)
ExitEvent_first(id, exitCode, registry) ==
  [exitCode |-> exitCode,
   to |-> IF exitCallbacks = {} THEN {}
          ELSE {CHOOSE cb \in exitCallbacks : TRUE},
   entry |-> id \in registry]

\* an exit notification of id: the code the callbacks are invoked with, the
\* callbacks that are invoked, and whether the registry (as it is when they
\* run) still has the entry of id
ExitEvent(id, exitCode, registry) ==
  [exitCode |-> exitCode, to |-> exitCallbacks, entry |-> id \in registry]

\* (the exit of one process empties the registry)
AfterExit_cleared(registry, id) == {}

\* the registry after `this.sessions.delete(id)` in the exit handler
AfterExit(registry, id) == registry \ {id}

PtyExit(id, exitCode) ==
  /\ pty[id] \in {"running", "killed"}
  /\ pty' = [pty EXCEPT ![id] = "exited"]
  /\ sessions' = AfterExit(sessions, id)
  /\ exits' = [exits EXCEPT ![id] = Append(@, ExitEvent(id, exitCode, sessions'))]
  /\ last' = [Call("onExit", id, "void") EXCEPT !.exitCode = exitCode]
  /\ UNCHANGED <<session, maxSessions, nextId, flushTimers, settleTimers,
                 produced, chunks, accepted, dropped, discarded, delivered,
                 killed, exitCallbacks, written,
                 host, meta, dataCallbacks>>

(* ------------------------------- resize -------------------------------- *)
\* (the flag set by every resize)
EnterSuppression_always(suppressOutput, flag) == TRUE

\* the flag once the call has passed `if (suppressOutput)`
EnterSuppression(suppressOutput, flag) == IF suppressOutput THEN TRUE ELSE flag

\* (the catch block leaves the flag as it is)
FlagOnFailure_kept(flag) == flag

\* the flag when the catch block has run
FlagOnFailure(flag) == FALSE

\* resize(id, cols, rows, suppressOutput); outcome: "ok", or "throws" when
\* pty.resize raises
Resize(id, suppressOutput, outcome) ==
  IF id \notin sessions
  THEN /\ last' = [Call("resize", id, "false") EXCEPT !.suppressOutput = suppressOutput]
       /\ UNCHANGED <<sessions, session, maxSessions, nextId, pty, flushTimers,
                      settleTimers, produced, chunks, accepted, dropped,
                      discarded, delivered, exits, killed,
                      exitCallbacks, written,
                      host, meta, dataCallbacks>>
  ELSE LET s == session[id]
           \* lines 354-359
           flag1 == EnterSuppression(suppressOutput, s.resizeInProgress)
           field1 == IF suppressOutput THEN Cleared(s.resizeDebounceTimeout)
                     ELSE s.resizeDebounceTimeout
           timers1 == IF suppressOutput
                      THEN AfterClear(s.resizeDebounceTimeout, settleTimers[id])
                      ELSE settleTimers[id]
       IN  /\ IF outcome = "throws"
              THEN /\ session' = [session EXCEPT ![id] =
                        [s EXCEPT !.resizeInProgress = FlagOnFailure(flag1),
                                  !.resizeDebounceTimeout = field1]]
                   /\ settleTimers' = [settleTimers EXCEPT ![id] = timers1]
                   /\ last' = [Call("resize", id, "false")
                                 EXCEPT !.suppressOutput = suppressOutput]
              ELSE /\ suppressOutput => timers1 < MaxTimers
                   /\ session' = [session EXCEPT ![id] =
                        [s EXCEPT !.resizeInProgress = flag1,
                                  !.resizeDebounceTimeout =
                                     IF suppressOutput THEN "armed" ELSE field1]]
                   /\ settleTimers' = [settleTimers EXCEPT ![id] =
                        IF suppressOutput THEN timers1 + 1 ELSE timers1]
                   /\ last' = [Call("resize", id, "true")
                                 EXCEPT !.suppressOutput = suppressOutput]
           /\ UNCHANGED <<sessions, maxSessions, nextId, pty, flushTimers,
                          produced, chunks, accepted, dropped, discarded,
                          delivered, exits, killed, exitCallbacks, written,
                          host, meta, dataCallbacks>>

\* (the callback forgets the flag)
SettleFires_keepsFlag(id) ==
  /\ settleTimers[id] > 0
  /\ settleTimers' = [settleTimers EXCEPT ![id] = @ - 1]
  /\ session' = [session EXCEPT ![id].resizeDebounceTimeout = "null"]
  /\ last' = Call("settle", id, "void")
  /\ UNCHANGED <<sessions, maxSessions, nextId, pty, flushTimers, produced,
                 chunks, accepted, dropped, discarded, delivered, exits, killed,
                 exitCallbacks, written,
                 host, meta, dataCallbacks>>

\* one outstanding settle timer of id fires
SettleFires(id) ==
  /\ settleTimers[id] > 0
  /\ settleTimers' = [settleTimers EXCEPT ![id] = @ - 1]
  /\ session' = [session EXCEPT ![id] =
       [@ EXCEPT !.resizeInProgress = FALSE, !.resizeDebounceTimeout = "null"]]
  /\ last' = Call("settle", id, "void")
  /\ UNCHANGED <<sessions, maxSessions, nextId, pty, flushTimers, produced,
                 chunks, accepted, dropped, discarded, delivered, exits, killed,
                 exitCallbacks, written,
                 host, meta, dataCallbacks>>

(* ----------------------------- killSession ----------------------------- *)
\* the flush timers left outstanding by killSession
KillClearsFlush(h, n) == AfterClear(h, n)
\* (killSession leaves the settle timer running)
KillClearsSettle_kept(h, n) == n

\* the settle timers left outstanding by killSession
KillClearsSettle(h, n) == AfterClear(h, n)

\* killSession(id); outcome: "ok", or "throws" when pty.kill raises
KillSession(id, outcome) ==
  IF id \notin sessions
  THEN /\ last' = Call("killSession", id, "false")
       /\ UNCHANGED <<sessions, session, maxSessions, nextId, pty, flushTimers,
                      settleTimers, produced, chunks, accepted, dropped,
                      discarded, delivered, exits, killed,
                      exitCallbacks, written,
                      host, meta, dataCallbacks>>
  ELSE LET s == session[id]
       IN  /\ session' = [session EXCEPT ![id] =
                [s EXCEPT !.flushTimeout = "null",
                          !.resizeDebounceTimeout = "null"]]
           /\ flushTimers' = [flushTimers EXCEPT ![id] =
                KillClearsFlush(s.flushTimeout, @)]
           /\ settleTimers' = [settleTimers EXCEPT ![id] =
                KillClearsSettle(s.resizeDebounceTimeout, @)]
           /\ pty' = [pty EXCEPT ![id] = IF outcome = "ok" THEN "killed" ELSE @]
           /\ sessions' = sessions \ {id}
           /\ killed' = killed \cup {id}
           /\ last' = Call("killSession", id, IF outcome = "ok" THEN "true" ELSE "false")
           /\ UNCHANGED <<maxSessions, nextId, produced, chunks, accepted,
                          dropped, discarded, delivered, exits,
                          exitCallbacks, written,
                          host, meta, dataCallbacks>>

(* --------------------- getScrollbackAndClearPending -------------------- *)
\* `s || null`: the empty string is falsy
OrNull(s) == IF s = EmptyStr THEN "null" ELSE "string"

\* (attaching opens a suppression window)
FlagAfterAttach_set(flag) == TRUE

\* resizeInProgress after getScrollbackAndClearPending, which does not
\* assign it
FlagAfterAttach(flag) == flag

GetScrollbackAndClearPending(id) ==
  IF id \notin sessions
  THEN /\ last' = Call("getScrollbackAndClearPending", id, "null")
       /\ UNCHANGED <<sessions, session, maxSessions, nextId, pty, flushTimers,
                      settleTimers, produced, chunks, accepted, dropped,
                      discarded, delivered, exits, killed,
                      exitCallbacks, written,
                      host, meta, dataCallbacks>>
  ELSE LET s == session[id]
       IN  /\ session' = [session EXCEPT ![id] =
                [s EXCEPT !.outputBuffer = EmptyStr, !.flushTimeout = "null",
                          !.resizeInProgress = FlagAfterAttach(@)]]
           /\ flushTimers' = [flushTimers EXCEPT ![id] =
                AfterClear(s.flushTimeout, @)]
           /\ discarded' = [discarded EXCEPT ![id] = StrCat(@, s.outputBuffer)]
           /\ last' = [Call("getScrollbackAndClearPending", id,
                               OrNull(s.scrollbackBuffer))
                          EXCEPT !.value = s.scrollbackBuffer]
           /\ UNCHANGED <<sessions, maxSessions, nextId, pty, settleTimers,
                          produced, chunks, accepted, dropped, delivered, exits,
                          killed, exitCallbacks, written,
                          host, meta, dataCallbacks>>

(* -------------------------------- write -------------------------------- *)
\* (the lookup finds a session for every id)
HasSession_always(id) == TRUE

\* `this.sessions.get(id)` is not undefined
HasSession(id) == id \in sessions

\* (the data forwarded twice)
PtyWrite_twice(n) == n + 2

\* `session.pty.write(data)`: one more write has reached the process
PtyWrite(n) == n + 1

\* write(id, data)
Write(id) ==
  /\ IF ~HasSession(id)
     THEN /\ last' = Call("write", id, "false")
          /\ UNCHANGED written
     ELSE /\ written[id] < MaxWrites
          /\ written' = [written EXCEPT ![id] = PtyWrite(@)]
          /\ last' = Call("write", id, "true")
  /\ UNCHANGED <<sessions, session, maxSessions, nextId, pty, flushTimers,
                 settleTimers, produced, chunks, accepted, dropped, discarded,
                 delivered, exits, killed, exitCallbacks,
                 host, meta, dataCallbacks>>

(* ----------------------------- getScrollback --------------------------- *)
GetScrollback(id) ==
  /\ last' = IF ~HasSession(id)
             THEN Call("getScrollback", id, "null")
             ELSE [Call("getScrollback", id, OrNull(session[id].scrollbackBuffer))
                     EXCEPT !.value = session[id].scrollbackBuffer]
  /\ UNCHANGED <<sessions, session, maxSessions, nextId, pty, flushTimers,
                 settleTimers, produced, chunks, accepted, dropped, discarded,
                 delivered, exits, killed, exitCallbacks, written,
                 host, meta, dataCallbacks>>

(* --------------------------- onData / onExit --------------------------- *)
\* onData(callback): the callback joins the set
OnData(cb) ==
  /\ dataCallbacks' = dataCallbacks \cup {cb}
  /\ last' = [Call("subscribeData", NoId, "void") EXCEPT !.cb = cb]
  /\ UNCHANGED <<sessions, session, maxSessions, nextId, pty, flushTimers,
                 settleTimers, produced, chunks, accepted, dropped, discarded,
                 delivered, exits, killed, exitCallbacks, written,
                 host, meta>>

\* the set once the function that onData or onExit returned has run
Unsubscribed(callbacks, cb) == callbacks \ {cb}

\* the function onData returned for cb is called
OffData(cb) ==
  /\ cb \in dataCallbacks
  /\ dataCallbacks' = Unsubscribed(dataCallbacks, cb)
  /\ last' = [Call("unsubscribeData", NoId, "void") EXCEPT !.cb = cb]
  /\ UNCHANGED <<sessions, session, maxSessions, nextId, pty, flushTimers,
                 settleTimers, produced, chunks, accepted, dropped, discarded,
                 delivered, exits, killed, exitCallbacks, written,
                 host, meta>>

\* onExit(callback): the callback joins the set
OnExit(cb) ==
  /\ exitCallbacks' = exitCallbacks \cup {cb}
  /\ last' = [Call("subscribeExit", NoId, "void") EXCEPT !.cb = cb]
  /\ UNCHANGED <<sessions, session, maxSessions, nextId, pty, flushTimers,
                 settleTimers, produced, chunks, accepted, dropped, discarded,
                 delivered, exits, killed, written,
                 host, meta, dataCallbacks>>

\* the function onExit returned for cb is called
OffExit(cb) ==
  /\ cb \in exitCallbacks
  /\ exitCallbacks' = Unsubscribed(exitCallbacks, cb)
  /\ last' = [Call("unsubscribeExit", NoId, "void") EXCEPT !.cb = cb]
  /\ UNCHANGED <<sessions, session, maxSessions, nextId, pty, flushTimers,
                 settleTimers, produced, chunks, accepted, dropped, discarded,
                 delivered, exits, killed, written,
                 host, meta, dataCallbacks>>

(* ------------------------------- cleanup ------------------------------- *)
\* cleanup(); failing: the sessions whose pty.kill() raises (the exception
\* is swallowed).  For every entry the flush timer is cleared (the field
\* keeps its handle), the process is signalled and the entry is deleted;
\* resizeDebounceTimeout is not looked at.
Cleanup(failing) ==
  /\ failing \subseteq sessions
  /\ session' = [i \in Ids |->
       IF i \in sessions
       THEN [session[i] EXCEPT !.flushTimeout = Cleared(@)]
       ELSE session[i]]
  /\ flushTimers' = [i \in Ids |->
       IF i \in sessions
       THEN AfterClear(session[i].flushTimeout, flushTimers[i])
       ELSE flushTimers[i]]
  /\ pty' = [i \in Ids |-> IF i \in sessions \ failing THEN "killed" ELSE pty[i]]
  /\ sessions' = {}
  /\ last' = Call("cleanup", NoId, "void")
  /\ UNCHANGED <<maxSessions, nextId, settleTimers, produced, chunks, accepted,
                 dropped, discarded, delivered, exits, killed, exitCallbacks,
                 written, host, meta, dataCallbacks>>

(* --------------------- detectShell / isWSL as calls -------------------- *)
Unchanged_service ==
  UNCHANGED <<sessions, session, maxSessions, nextId, pty, flushTimers,
              settleTimers, produced, chunks, accepted, dropped, discarded,
              delivered, exits, killed, exitCallbacks, written,
              host, meta, dataCallbacks>>

\* detectShell()
DetectShell ==
  /\ last' = [Call("detectShell", NoId, detectShell(host).shell)
                EXCEPT !.args = detectShell(host).args]
  /\ Unchanged_service

\* isWSL()
IsWSL ==
  /\ last' = Call("isWSL", NoId, IF isWSL(host) THEN "true" ELSE "false")
  /\ Unchanged_service

(* ---------------------------- specification ---------------------------- *)
Next ==
  \/ \E limit \in LimitInputs : SetMaxSessions(limit)
  \/ \E id \in Ids, requestedCwd \in RequestedCwds, stat \in Stats \cup {"none"},
        spawn \in {"spawned", "throws"} :
        CanStat(requestedCwd, stat) /\ CreateSessionWith(id, requestedCwd, stat, spawn)
  \/ \E id \in Ids, n \in ChunkSizes : PtyData(id, n)
  \/ \E id \in Ids : FlushOutput(id)
  \/ \E id \in Ids, exitCode \in ExitCodes : PtyExit(id, exitCode)
  \/ \E id \in Ids, suppressOutput \in BOOLEAN, outcome \in {"ok", "throws"} :
        Resize(id, suppressOutput, outcome)
  \/ \E id \in Ids : SettleFires(id)
  \/ \E id \in Ids, outcome \in {"ok", "throws"} : KillSession(id, outcome)
  \/ \E id \in Ids : GetScrollbackAndClearPending(id)
  \/ \E id \in Ids : Write(id)
  \/ \E id \in Ids : GetScrollback(id)
  \/ \E cb \in Callbacks : OnExit(cb)
  \/ \E cb \in Callbacks : OffExit(cb)
  \/ \E cb \in Callbacks : OnData(cb)
  \/ \E cb \in Callbacks : OffData(cb)
  \/ \E failing \in SUBSET Ids : Cleanup(failing)
  \/ DetectShell
  \/ IsWSL

Spec == Init /\ [][Next]_vars

(* The two views the properties are checked under.  The session objects   *)
(* share nothing but the registry, so the registry is explored with every *)
(* id and no process output, and the output path with one session and     *)
(* every operation on it.                                                 *)

\* the registry: every call and every process exit, for every id
NextRegistry ==
  \/ \E limit \in LimitInputs : SetMaxSessions(limit)
  \/ \E spawn \in {"spawned", "throws"} : CreateSession(spawn)
  \/ \E id \in Ids, exitCode \in ExitCodes : PtyExit(id, exitCode)
  \/ \E id \in Ids, suppressOutput \in BOOLEAN, outcome \in {"ok", "throws"} :
        Resize(id, suppressOutput, outcome)
  \/ \E id \in Ids : SettleFires(id)
  \/ \E id \in Ids, outcome \in {"ok", "throws"} : KillSession(id, outcome)
  \/ \E id \in Ids : GetScrollbackAndClearPending(id)

InitRegistry == InitState /\ host = PlainLinux

SpecRegistry == InitRegistry /\ [][NextRegistry]_vars

\* one session (the first id) under the default limit, with its process output
FirstId == 1

InitSession ==
  InitState /\ maxSessions = DEFAULT_MAX_SESSIONS /\ host = PlainLinux

NextSession ==
  \/ \E spawn \in {"spawned", "throws"} : CreateSession(spawn) /\ nextId' <= FirstId + 1
  \/ \E n \in ChunkSizes : PtyData(FirstId, n)
  \/ FlushOutput(FirstId)
  \/ PtyExit(FirstId, 0)
  \/ \E suppressOutput \in BOOLEAN, outcome \in {"ok", "throws"} :
        Resize(FirstId, suppressOutput, outcome)
  \/ SettleFires(FirstId)
  \/ \E outcome \in {"ok", "throws"} : KillSession(FirstId, outcome)
  \/ GetScrollbackAndClearPending(FirstId)

SpecSession == InitSession /\ [][NextSession]_vars

\* the exit notifications: one session (the first id), the exit subscribers
\* and the calls a caller makes on the id, with no process output
NextExit ==
  \/ \E spawn \in {"spawned", "throws"} : CreateSession(spawn) /\ nextId' <= FirstId + 1
  \/ \E cb \in Callbacks : OnExit(cb)
  \/ \E cb \in Callbacks : OffExit(cb)
  \/ \E exitCode \in ExitCodes : PtyExit(FirstId, exitCode)
  \/ Write(FirstId)
  \/ \E suppressOutput \in BOOLEAN, outcome \in {"ok", "throws"} :
        Resize(FirstId, suppressOutput, outcome)
  \/ SettleFires(FirstId)
  \/ \E outcome \in {"ok", "throws"} : KillSession(FirstId, outcome)

SpecExit == InitSession /\ [][NextExit]_vars

\* an id that no session ever has while only the first id is handed out
UnknownId == FirstId + 1

\* the calls that take an id, made with the first id (known while its session
\* is registered) and with an id that is unknown throughout; output is
\* buffered and its flush stays outstanding (its firing is in SpecSession)
NextCalls ==
  \/ \E spawn \in {"spawned", "throws"} : CreateSession(spawn) /\ nextId' <= FirstId + 1
  \/ \E n \in ChunkSizes : PtyData(FirstId, n)
  \/ PtyExit(FirstId, 0)
  \/ SettleFires(FirstId)
  \/ \E id \in {FirstId, UnknownId} : Write(id)
  \/ \E id \in {FirstId, UnknownId}, suppressOutput \in BOOLEAN,
        outcome \in {"ok", "throws"} : Resize(id, suppressOutput, outcome)
  \/ \E id \in {FirstId, UnknownId}, outcome \in {"ok", "throws"} :
        KillSession(id, outcome)
  \/ \E id \in {FirstId, UnknownId} : GetScrollback(id)
  \/ \E id \in {FirstId, UnknownId} : GetScrollbackAndClearPending(id)

SpecCalls == InitSession /\ [][NextCalls]_vars

\* creation: the id that createSession builds may be any id, also one that
\* is in use, and the cwd option and the file system vary
NextCreate ==
  \/ \E id \in Ids, requestedCwd \in RequestedCwds, stat \in Stats \cup {"none"},
        spawn \in {"spawned", "throws"} :
        CanStat(requestedCwd, stat) /\ CreateSessionWith(id, requestedCwd, stat, spawn)
  \/ \E id \in Ids : KillSession(id, "ok")

SpecCreate == InitSession /\ [][NextCreate]_vars

\* the subscribers: two sessions, each with one chunk of output and its
\* exit, and the data and exit callbacks coming and going
SecondId == FirstId + 1
SmallChunk == CHOOSE n \in ChunkSizes : \A m \in ChunkSizes : n <= m

NextSubscribers ==
  \/ \E spawn \in {"spawned", "throws"} : CreateSession(spawn) /\ nextId' <= SecondId + 1
  \/ \E cb \in Callbacks : OnData(cb)
  \/ \E cb \in Callbacks : OffData(cb)
  \/ \E cb \in Callbacks : OnExit(cb)
  \/ \E cb \in Callbacks : OffExit(cb)
  \/ \E id \in {FirstId, SecondId} : PtyData(id, SmallChunk) /\ chunks'[id] <= 1
  \/ \E id \in {FirstId, SecondId} : FlushOutput(id)
  \/ \E id \in {FirstId, SecondId}, exitCode \in ExitCodes : PtyExit(id, exitCode)

SpecSubscribers == InitSession /\ [][NextSubscribers]_vars

\* shell detection on every host
InitShell == InitState /\ maxSessions = DEFAULT_MAX_SESSIONS /\ host \in Hosts

NextShell == DetectShell \/ IsWSL

SpecShell == InitShell /\ [][NextShell]_vars

\* the output path of one session (the first id) when the process may also
\* hand an empty chunk to the onData handler
EmptyChunk == 0

NextOutput ==
  \/ \E spawn \in {"spawned", "throws"} : CreateSession(spawn) /\ nextId' <= FirstId + 1
  \/ \E n \in {EmptyChunk, SmallChunk} : PtyData(FirstId, n)
  \/ FlushOutput(FirstId)
  \/ \E suppressOutput \in BOOLEAN, outcome \in {"ok", "throws"} :
        Resize(FirstId, suppressOutput, outcome)
  \/ SettleFires(FirstId)
  \/ GetScrollbackAndClearPending(FirstId)
  \/ KillSession(FirstId, "ok")

SpecOutput == InitSession /\ [][NextOutput]_vars

\* a timer that is outstanding and is not cleared fires: the event loop runs
\* the callback of every setTimeout that is due
TimersFire ==
  /\ WF_vars(FlushOutput(FirstId))
  /\ WF_vars(SettleFires(FirstId))

SpecOutputFair == SpecOutput /\ TimersFire

\* the callback of the views that subscribe one
Subscriber == CHOOSE cb \in Callbacks : TRUE

\* the whole service with one session (the first id): every call and every
\* callback, one chunk of output
NextService ==
  \/ \E spawn \in {"spawned", "throws"} : CreateSession(spawn) /\ nextId' <= FirstId + 1
  \/ SetMaxSessions(MIN_MAX_SESSIONS)
  \/ PtyData(FirstId, SmallChunk) /\ chunks'[FirstId] <= 1
  \/ FlushOutput(FirstId)
  \/ SettleFires(FirstId)
  \/ \E suppressOutput \in BOOLEAN, outcome \in {"ok", "throws"} :
        Resize(FirstId, suppressOutput, outcome)
  \/ Write(FirstId)
  \/ GetScrollback(FirstId)
  \/ GetScrollbackAndClearPending(FirstId)
  \/ \E outcome \in {"ok", "throws"} : KillSession(FirstId, outcome)
  \/ PtyExit(FirstId, 0)
  \/ \E failing \in SUBSET {FirstId} : Cleanup(failing)
  \/ OnData(Subscriber)
  \/ OffData(Subscriber)
  \/ OnExit(Subscriber)
  \/ OffExit(Subscriber)

SpecService == InitSession /\ [][NextService]_vars

\* two sessions side by side: the output, the timers and the calls of each
NextPair ==
  \/ CreateSession("spawned") /\ nextId' <= SecondId + 1
  \/ \E id \in {FirstId, SecondId} : PtyData(id, SmallChunk) /\ chunks'[id] <= 1
  \/ \E id \in {FirstId, SecondId} : FlushOutput(id)
  \/ \E id \in {FirstId, SecondId} : SettleFires(id)
  \/ \E id \in {FirstId, SecondId} : Resize(id, TRUE, "ok")
  \/ \E id \in {FirstId, SecondId} : Write(id)
  \/ \E id \in {FirstId, SecondId} : GetScrollbackAndClearPending(id)
  \/ \E id \in {FirstId, SecondId} : KillSession(id, "ok")
  \/ \E id \in {FirstId, SecondId} : PtyExit(id, 0)

SpecPair == InitSession /\ [][NextPair]_vars

\* the end of sessions: two sessions with their timers, killed, exiting or
\* swept by cleanup, and the exit subscriber
NextShutdown ==
  \/ CreateSession("spawned") /\ nextId' <= SecondId + 1
  \/ \E id \in {FirstId, SecondId} : PtyData(id, SmallChunk) /\ chunks'[id] <= 1
  \/ \E id \in {FirstId, SecondId} : FlushOutput(id)
  \/ \E id \in {FirstId, SecondId} : SettleFires(id)
  \/ \E id \in {FirstId, SecondId} : Resize(id, TRUE, "ok")
  \/ \E id \in {FirstId, SecondId}, outcome \in {"ok", "throws"} :
        KillSession(id, outcome)
  \/ \E id \in {FirstId, SecondId} : PtyExit(id, 0)
  \/ \E failing \in SUBSET {FirstId, SecondId} : Cleanup(failing)
  \/ OnExit(Subscriber)
  \/ OffExit(Subscriber)

SpecShutdown == InitSession /\ [][NextShutdown]_vars

\* the registry with two sessions: every call and every callback on the
\* first, with its output, while the second comes and goes
NextMembership ==
  \/ \E spawn \in {"spawned", "throws"} : CreateSession(spawn) /\ nextId' <= SecondId + 1
  \/ SetMaxSessions(MIN_MAX_SESSIONS)
  \/ PtyData(FirstId, SmallChunk) /\ chunks'[FirstId] <= 1
  \/ FlushOutput(FirstId)
  \/ SettleFires(FirstId)
  \/ Resize(FirstId, TRUE, "ok")
  \/ Write(FirstId)
  \/ GetScrollback(FirstId)
  \/ GetScrollbackAndClearPending(FirstId)
  \/ \E id \in {FirstId, SecondId} : KillSession(id, "ok")
  \/ \E id \in {FirstId, SecondId} : PtyExit(id, 0)
  \/ Cleanup({})
  \/ OnData(Subscriber)
  \/ OffData(Subscriber)
  \/ OnExit(Subscriber)
  \/ OffExit(Subscriber)

SpecMembership == InitSession /\ [][NextMembership]_vars

(* ============================ properties =============================== *)
Count == Cardinality(sessions)

\* C1: with the maximum unchanged the number of sessions stays at most the
\* maximum; a createSession at or above the maximum returns null, spawns no
\* process and changes nothing; below the maximum (so as soon as a kill or an
\* exit removed a session) createSession is not refused, and a session it
\* returns is a new entry.
C1_CapacityRespected ==
  /\ Count <= maxSessions
  /\ [][/\ (maxSessions' = maxSessions /\ Count <= maxSessions)
             => Cardinality(sessions') <= maxSessions
        /\ (last'.op = "createSession" /\ Count >= maxSessions)
             => /\ last'.result = "null"
                /\ UNCHANGED <<sessions, session, pty, nextId, flushTimers,
                               settleTimers>>
        /\ (last'.op = "createSession" /\ Count < maxSessions)
             => /\ last'.result # "null"
                /\ last'.result = "session"
                     => /\ last'.id \notin sessions
                        /\ sessions' = sessions \cup {last'.id}
                        /\ pty'[last'.id] = "running"]_vars

\* capacity 1: the first session was removed, a second one was created, and a
\* further createSession has just been refused
C1_Witness ==
  /\ maxSessions = 1
  /\ sessions = {2}
  /\ pty[1] \in {"killed", "exited"}
  /\ last = Call("createSession", NoId, "null")

\* C2 (as claimed): the number of registered sessions never exceeds the
\* currently configured maximum, also after setMaxSessions changed it.
C2_AsClaimed == Count <= maxSessions

\* C2 (amended): no step that adds a session leaves more sessions than the
\* current maximum, and whenever the count exceeds the maximum after a step,
\* the step added no session (setMaxSessions lowered the limit below the
\* live count, or the count was already above it).
C2_NeverGrowsBeyondLimit ==
  [][/\ Cardinality(sessions') > Count => Cardinality(sessions') <= maxSessions'
     /\ Cardinality(sessions') > maxSessions'
          => /\ sessions' \subseteq sessions
             /\ (Count <= maxSessions => last'.op = "setMaxSessions")]_vars

\* setMaxSessions has lowered the limit below the number of live sessions
C2_Witness ==
  /\ last.op = "setMaxSessions"
  /\ last.limit = 1
  /\ Count = 2
  /\ maxSessions = 1

(* ------------------------- the output path ----------------------------- *)
\* the two strings have a character (a position of the stream) in common
Overlaps(a, b) ==
  \E i \in 1 .. Len(a), j \in 1 .. Len(b) :
     a[i][1] < b[j][1] + b[j][2] /\ b[j][1] < a[i][1] + a[i][2]

RECURSIVE Flatten(_)
\* the concatenation of a sequence of strings
Flatten(events) ==
  IF events = << >> THEN EmptyStr
  ELSE StrCat(Flatten(SubSeq(events, 1, Len(events) - 1)), events[Len(events)])

\* the chunk handed to onData in this step
ArrivedChunk(id) == Chunk(produced[id], produced'[id] - produced[id])
DataArrives(id) == last'.op = "onData" /\ last'.id = id
FlushRuns(id) == last'.op = "flushOutput" /\ last'.id = id

\* C3: a chunk that arrives while the suppression flag is set changes
\* neither the session's scrollback nor its pendingOutput, schedules no
\* flush, and none of its characters is in scrollback, in pendingOutput or
\* in a data event at any later time.
C3_SuppressedChunkDiscarded ==
  /\ [][\A id \in Ids :
          (DataArrives(id) /\ session[id].resizeInProgress)
             => /\ session'[id] = session[id]
                /\ flushTimers'[id] = flushTimers[id]
                /\ delivered'[id] = delivered[id]
                /\ dropped'[id] = StrCat(dropped[id], ArrivedChunk(id))]_vars
  /\ [](\A id \in Ids :
          /\ ~Overlaps(dropped[id], session[id].scrollbackBuffer)
          /\ ~Overlaps(dropped[id], session[id].outputBuffer)
          /\ \A k \in 1 .. Len(delivered[id]) : ~Overlaps(dropped[id], delivered[id][k]))

\* a chunk was discarded while suppressed, a later chunk was accepted and
\* everything buffered has been delivered
C3_Witness ==
  /\ dropped[FirstId] # EmptyStr
  /\ accepted[FirstId] # EmptyStr
  /\ accepted[FirstId][1][1] > dropped[FirstId][1][1]
  /\ delivered[FirstId] # << >>
  /\ session[FirstId].outputBuffer = EmptyStr

\* C4 (as claimed): while the suppression flag is set, no data event is
\* delivered for the session and its scrollback does not change.
C4_AsClaimed ==
  [][\A id \in Ids :
       session[id].resizeInProgress
          => /\ delivered'[id] = delivered[id]
             /\ session'[id].scrollbackBuffer = session[id].scrollbackBuffer]_vars

\* C4 (amended): while the suppression flag is set, the scrollback does not
\* change and no output is accepted; a data event delivered in that interval
\* carries only the head of what was already pending, which it removes from
\* pendingOutput.
C4_OnlyPendingDeliveredWhileSuppressed ==
  [][\A id \in Ids :
       session[id].resizeInProgress
          => /\ session'[id].scrollbackBuffer = session[id].scrollbackBuffer
             /\ accepted'[id] = accepted[id]
             /\ \/ /\ delivered'[id] = delivered[id]
                   /\ session'[id].outputBuffer \in {session[id].outputBuffer, EmptyStr}
                \/ /\ Len(delivered'[id]) = Len(delivered[id]) + 1
                   /\ SubSeq(delivered'[id], 1, Len(delivered[id])) = delivered[id]
                   /\ StrCat(delivered'[id][Len(delivered'[id])],
                             session'[id].outputBuffer) = session[id].outputBuffer]_vars

\* the session is suppressed with its settle timer running, output has been
\* discarded in the window and a flush has just delivered pending output
C4_Witness ==
  /\ session[FirstId].resizeInProgress
  /\ settleTimers[FirstId] = 1
  /\ dropped[FirstId] # EmptyStr
  /\ last = Call("flushOutput", FirstId, "void")
  /\ delivered[FirstId] # << >>

SettleRuns(id) == last'.op = "settle" /\ last'.id = id

\* what the normal path does with an arriving chunk: appended to scrollback
\* (which keeps its newest characters), appended to pendingOutput, and a
\* flush of the session is outstanding
EntersNormalPath(id) ==
  LET data == ArrivedChunk(id)
      sb == session'[id].scrollbackBuffer
      whole == StrCat(session[id].scrollbackBuffer, data)
  IN  /\ accepted'[id] = StrCat(accepted[id], data)
      /\ session'[id].outputBuffer = StrCat(session[id].outputBuffer, data)
      /\ StrCat(SliceTo(whole, StrLen(whole) - StrLen(sb)), sb) = whole
      /\ StrLen(sb) = IF StrLen(whole) > MAX_SCROLLBACK_SIZE
                      THEN MAX_SCROLLBACK_SIZE ELSE StrLen(whole)
      /\ session'[id].flushTimeout = "armed"
      /\ flushTimers'[id] = 1

LeftUntouched(id) ==
  /\ session'[id] = session[id]
  /\ accepted'[id] = accepted[id]
  /\ delivered'[id] = delivered[id]
  /\ flushTimers'[id] = flushTimers[id]

C6_EventSizeBounded ==
  \A id \in Ids : \A k \in 1 .. Len(delivered[id]) :
     /\ StrLen(delivered[id][k]) >= 1
     /\ StrLen(delivered[id][k]) <= OUTPUT_BATCH_SIZE

\* events of exactly the cap and a shorter last one, with output discarded
\* by an attach and a suppression window open
C6_Witness ==
  /\ \E k \in 1 .. Len(delivered[FirstId]) :
        StrLen(delivered[FirstId][k]) = OUTPUT_BATCH_SIZE
  /\ \E k \in 1 .. Len(delivered[FirstId]) :
        StrLen(delivered[FirstId][k]) < OUTPUT_BATCH_SIZE
  /\ discarded[FirstId] # EmptyStr
  /\ session[FirstId].resizeInProgress

CeilDiv(n, d) == (n + d - 1) \div d

\* the lengths of the data events of id, in order
EventSizes(id) == [k \in 1 .. Len(delivered[id]) |-> StrLen(delivered[id][k])]

\* C7: a flush with more than OUTPUT_BATCH_SIZE characters pending delivers
\* exactly the first OUTPUT_BATCH_SIZE of them, keeps the rest pending and
\* leaves one flush scheduled; a flush with at most that many delivers the
\* whole buffer, empties it and leaves no flush scheduled; so a burst of n
\* characters that has drained was delivered in ceil(n / cap) events, all
\* of the cap but the last (10000: 4096, 4096, 1808).
C7_BatchedDelivery ==
  /\ [][\A id \in Ids :
          FlushRuns(id) =>
            LET buf == session[id].outputBuffer
                n == StrLen(buf)
                ev == delivered'[id][Len(delivered'[id])]
            IN  n > 0 =>
                  /\ delivered'[id] = Append(delivered[id], ev)
                  /\ StrCat(ev, session'[id].outputBuffer) = buf
                  /\ IF n > OUTPUT_BATCH_SIZE
                     THEN /\ StrLen(ev) = OUTPUT_BATCH_SIZE
                          /\ session'[id].flushTimeout = "armed"
                          /\ flushTimers'[id] = 1
                     ELSE /\ ev = buf
                          /\ session'[id].flushTimeout = "null"
                          /\ flushTimers'[id] = 0]_vars
  /\ [](\A id \in Ids :
          (/\ chunks[id] = 1
           /\ accepted[id] # EmptyStr
           /\ discarded[id] = EmptyStr
           /\ session[id].outputBuffer = EmptyStr)
          => LET n == StrLen(accepted[id])
                 m == CeilDiv(n, OUTPUT_BATCH_SIZE)
             IN  /\ Len(delivered[id]) = m
                 /\ \A k \in 1 .. m :
                      StrLen(delivered[id][k]) =
                        IF k < m THEN OUTPUT_BATCH_SIZE
                        ELSE n - OUTPUT_BATCH_SIZE * (m - 1)
                 /\ flushTimers[id] = 0)
  /\ [](\A id \in Ids :
          (/\ chunks[id] = 1
           /\ StrLen(accepted[id]) = 10000
           /\ session[id].outputBuffer = EmptyStr
           /\ discarded[id] = EmptyStr)
          => EventSizes(id) = <<4096, 4096, 1808>>)

\* the burst of 10000 characters has drained on a live session
C7_Witness ==
  /\ FirstId \in sessions
  /\ chunks[FirstId] = 1
  /\ accepted[FirstId] = Chunk(0, 10000)
  /\ session[FirstId].outputBuffer = EmptyStr
  /\ EventSizes(FirstId) = <<4096, 4096, 1808>>
  /\ last = Call("flushOutput", FirstId, "void")

\* the positions of the string increase from its first character to its last
Ordered(s) == \A i \in 1 .. Len(s) - 1 : s[i][1] + s[i][2] <= s[i + 1][1]

\* every character of a is a character of b
Within(a, b) ==
  \A i \in 1 .. Len(a) : \E j \in 1 .. Len(b) :
     b[j][1] <= a[i][1] /\ a[i][1] + a[i][2] <= b[j][1] + b[j][2]

\* C8: the data events of a session, followed by its pendingOutput, carry
\* accepted output in the order it was produced and each character at most
\* once; together with what getScrollbackAndClearPending discarded they
\* are exactly the accepted output; with nothing discarded, the events
\* followed by pendingOutput are the accepted output.
C8_FifoDelivery ==
  \A id \in Ids :
    LET D == Flatten(delivered[id])
        P == session[id].outputBuffer
        X == discarded[id]
        A == accepted[id]
    IN  /\ \A k \in 1 .. Len(delivered[id]) : Ordered(delivered[id][k])
        /\ \A k \in 1 .. Len(delivered[id]) - 1 :
              LET e == delivered[id][k]
                  f == delivered[id][k + 1]
              IN  e # EmptyStr /\ f # EmptyStr
                    => e[Len(e)][1] + e[Len(e)][2] <= f[1][1]
        /\ Ordered(D \o P)
        /\ Within(D, A) /\ Within(P, A) /\ Within(X, A)
        /\ ~Overlaps(D, P) /\ ~Overlaps(D, X) /\ ~Overlaps(P, X)
        /\ StrLen(D) + StrLen(P) + StrLen(X) = StrLen(A)
        /\ X = EmptyStr => StrCat(D, P) = A

\* events from before and after an attach that discarded pending output,
\* with more output pending
C8_Witness ==
  /\ discarded[FirstId] # EmptyStr
  /\ Len(delivered[FirstId]) >= 2
  /\ session[FirstId].outputBuffer # EmptyStr
  /\ delivered[FirstId][1][1][1] < discarded[FirstId][1][1]
  /\ discarded[FirstId][1][1] < delivered[FirstId][2][1][1]

\* C9: the scrollback is never longer than MAX_SCROLLBACK_SIZE and is
\* exactly the last min(MAX_SCROLLBACK_SIZE, total) characters of the
\* accepted output.
C9_ScrollbackIsTail ==
  \A id \in Ids :
    LET sb == session[id].scrollbackBuffer
        A == accepted[id]
        total == StrLen(A)
        keep == IF total > MAX_SCROLLBACK_SIZE THEN MAX_SCROLLBACK_SIZE ELSE total
    IN  /\ StrLen(sb) <= MAX_SCROLLBACK_SIZE
        /\ StrLen(sb) = keep
        /\ StrCat(SliceTo(A, total - keep), sb) = A

\* more than MAX_SCROLLBACK_SIZE characters were accepted and the oldest
\* are gone from the scrollback
C9_Witness ==
  /\ StrLen(accepted[FirstId]) > MAX_SCROLLBACK_SIZE
  /\ StrLen(session[FirstId].scrollbackBuffer) = MAX_SCROLLBACK_SIZE
  /\ session[FirstId].scrollbackBuffer[1][1] > 0

\* C10 (as claimed): once killSession has returned for a known id, no data
\* event is delivered for that id and no settle callback runs for it.
C10_AsClaimed ==
  [][\A id \in killed :
       /\ delivered'[id] = delivered[id]
       /\ ~SettleRuns(id)]_vars

(* --------------------------- removal and calls ------------------------- *)
\* C11 (as claimed): a session removed by the exit of its process has no
\* outstanding flush or settle timer, and no data event of an id is
\* delivered after the exit notification of that id.
C11_AsClaimed ==
  /\ [](\A id \in Ids :
          (pty[id] = "exited" /\ id \notin killed)
             => flushTimers[id] = 0 /\ settleTimers[id] = 0)
  /\ [][\A id \in Ids :
          (exits[id] # << >> /\ id \notin killed)
             => delivered'[id] = delivered[id]]_vars

ExitRuns(id) == last'.op = "onExit" /\ last'.id = id
CallOn(id, ops) == last'.op \in ops /\ last'.id = id

\* C12: when the process of id exits with any code, the entry of id is
\* gone when the exit subscribers run, every callback subscribed at that
\* moment is invoked with (id, exitCode), once, and from then on write,
\* resize and killSession on id return false and do not throw.
C12_ExitRemovesThenNotifies ==
  [][\A id \in Ids :
       /\ ExitRuns(id)
            => /\ id \notin sessions'
               /\ exits'[id] = Append(exits[id],
                                      [exitCode |-> last'.exitCode,
                                       to |-> exitCallbacks,
                                       entry |-> FALSE])
       /\ (exits[id] # << >> /\ CallOn(id, {"write", "resize", "killSession"}))
            => last'.result = "false"]_vars

\* the process has exited with code 1 while two callbacks were subscribed
\* and the session was registered, and a later killSession has returned false
C12_Witness ==
  /\ exits[FirstId] = << [exitCode |-> 1, to |-> Callbacks, entry |-> FALSE] >>
  /\ FirstId \notin killed
  /\ last = Call("killSession", FirstId, "false")

\* C13: killSession on a known id leaves no entry for the id and no
\* outstanding flush or settle timer, whether or not the kill raises; it
\* returns true when the process was terminated and false when the kill
\* raised, and never throws.
C13_KillAlwaysRemoves ==
  [][\A id \in Ids :
       (CallOn(id, {"killSession"}) /\ id \in sessions)
          => /\ id \notin sessions'
             /\ flushTimers'[id] = 0
             /\ settleTimers'[id] = 0
             /\ session'[id].flushTimeout = "null"
             /\ session'[id].resizeDebounceTimeout = "null"
             /\ last'.result \in {"true", "false"}
             /\ last'.result = "true" <=> pty'[id] = "killed"
             /\ last'.result = "false" => pty'[id] = pty[id]]_vars

\* a kill that raised has returned false; the session had undelivered
\* output (so a flush was scheduled) and was suppressed (so a settle timer
\* was running), and no timer is left
C13_Witness ==
  /\ last = Call("killSession", FirstId, "false")
  /\ FirstId \in killed
  /\ pty[FirstId] = "running"
  /\ session[FirstId].outputBuffer # EmptyStr
  /\ session[FirstId].resizeInProgress
  /\ flushTimers[FirstId] = 0
  /\ settleTimers[FirstId] = 0

Attaches(id) == CallOn(id, {"getScrollbackAndClearPending"})

\* C14 (as claimed): getScrollbackAndClearPending on a live session returns
\* the current scrollback and leaves it unchanged, empties pendingOutput and
\* leaves no flush timer outstanding; what was pending at the call is in no
\* data event, and nothing of the returned scrollback is left to deliver.
C14_AsClaimed ==
  /\ [][\A id \in Ids :
          (Attaches(id) /\ id \in sessions)
             => /\ last'.result = "string"
                /\ last'.value = session[id].scrollbackBuffer
                /\ session'[id].scrollbackBuffer = session[id].scrollbackBuffer
                /\ session'[id].outputBuffer = EmptyStr
                /\ flushTimers'[id] = 0
                /\ session'[id].flushTimeout = "null"
                /\ discarded'[id] = StrCat(discarded[id], session[id].outputBuffer)]_vars
  /\ [](\A id \in Ids : \A k \in 1 .. Len(delivered[id]) :
          ~Overlaps(discarded[id], delivered[id][k]))

\* C15: a session never has more than one outstanding flush timer; a chunk
\* that arrives while a flush is outstanding schedules none, a flush timer is
\* started only by a chunk arriving with none outstanding, and a flush leaves
\* a timer outstanding only when it ran with more than OUTPUT_BATCH_SIZE
\* characters pending.
C15_OneFlushTimer ==
  /\ [](\A id \in Ids : flushTimers[id] <= 1)
  /\ [][\A id \in Ids :
          /\ (DataArrives(id) /\ flushTimers[id] = 1) => flushTimers'[id] = 1
          /\ flushTimers'[id] > flushTimers[id]
               => DataArrives(id) /\ flushTimers[id] = 0
          /\ (FlushRuns(id) /\ flushTimers'[id] > 0)
               => /\ flushTimers[id] = 1
                  /\ flushTimers'[id] = 1
                  /\ StrLen(session[id].outputBuffer) > OUTPUT_BATCH_SIZE]_vars

\* two chunks were buffered before the first flush (the second arrived
\* with the flush scheduled), the flush has run and rescheduled itself
C15_Witness ==
  /\ chunks[FirstId] = 2
  /\ StrLen(accepted[FirstId]) = 20000
  /\ Len(delivered[FirstId]) = 1
  /\ StrLen(session[FirstId].outputBuffer) = 20000 - OUTPUT_BATCH_SIZE
  /\ flushTimers[FirstId] = 1
  /\ last = Call("flushOutput", FirstId, "void")

ResizeRuns(id) == CallOn(id, {"resize"})

\* C16 (as claimed): a session never has more than one outstanding settle
\* timer; a suppressing resize issued while a settle timer is pending
\* cancels it and starts a new one, and the flag stays set until the settle
\* timer fires.
C16_AsClaimed ==
  /\ [](\A id \in Ids : settleTimers[id] <= 1)
  /\ [][\A id \in Ids :
          /\ (ResizeRuns(id) /\ last'.suppressOutput /\ id \in sessions
                /\ settleTimers[id] = 1)
               => /\ settleTimers'[id] = 1
                  /\ session'[id].resizeDebounceTimeout = "armed"
          /\ (session[id].resizeInProgress /\ ~session'[id].resizeInProgress)
               => SettleRuns(id)]_vars

\* C16 (amended): a session never has more than one outstanding settle
\* timer; a suppressing resize that succeeds cancels the pending settle
\* timer and starts a new one, so exactly one is outstanding; one that fails
\* cancels the pending timer and starts none; the flag stays set until the
\* one outstanding timer fires or a resize fails.
C16_OneSettleTimer ==
  /\ [](\A id \in Ids : settleTimers[id] <= 1)
  /\ [][\A id \in Ids :
          /\ (ResizeRuns(id) /\ last'.suppressOutput /\ last'.result = "true")
               => /\ settleTimers'[id] = 1
                  /\ session'[id].resizeDebounceTimeout = "armed"
                  /\ session'[id].resizeInProgress
          /\ (ResizeRuns(id) /\ last'.suppressOutput /\ id \in sessions
                /\ last'.result = "false")
               => /\ settleTimers'[id] = 0
                  /\ ~session'[id].resizeInProgress
          /\ settleTimers'[id] > settleTimers[id]
               => ResizeRuns(id) /\ last'.suppressOutput /\ last'.result = "true"
          /\ (session[id].resizeInProgress /\ ~session'[id].resizeInProgress)
               => \/ SettleRuns(id) /\ settleTimers[id] = 1
                  \/ ResizeRuns(id) /\ last'.result = "false"]_vars

\* a suppressing resize found a settle timer pending, cancelled it, failed
\* and started none: the handle is stale and the flag is clear
C16_Witness ==
  /\ FirstId \in sessions
  /\ last = [Call("resize", FirstId, "false") EXCEPT !.suppressOutput = TRUE]
  /\ session[FirstId].resizeDebounceTimeout = "stale"
  /\ settleTimers[FirstId] = 0
  /\ ~session[FirstId].resizeInProgress

\* C17: a resize on a live session returns true or false and never throws;
\* it returns false when the process rejects the change, and then the flag
\* is clear and no settle timer was started, for either value of
\* suppressOutput.
C17_FailedResizeClearsFlag ==
  [][\A id \in Ids :
       (ResizeRuns(id) /\ id \in sessions)
          => /\ last'.result \in {"true", "false"}
             /\ last'.result = "false"
                  => /\ ~session'[id].resizeInProgress
                     /\ settleTimers'[id] <= settleTimers[id]
                     /\ id \in sessions']_vars

\* a resize with suppressOutput=false was rejected inside a suppression
\* window: the flag is clear while the settle timer is still outstanding
C17_Witness ==
  /\ FirstId \in sessions
  /\ last = Call("resize", FirstId, "false")
  /\ settleTimers[FirstId] = 1
  /\ dropped[FirstId] # EmptyStr
  /\ ~session[FirstId].resizeInProgress

\* C18: a resize with suppressOutput=false never sets a clear flag and
\* neither starts nor cancels a settle timer; a chunk that arrives next,
\* with the flag clear, is appended to scrollback and to pendingOutput with
\* a flush scheduled.
C18_PlainResizeDoesNotSuppress ==
  [][\A id \in Ids :
       /\ (ResizeRuns(id) /\ ~last'.suppressOutput)
            => /\ ~session[id].resizeInProgress => ~session'[id].resizeInProgress
               /\ settleTimers'[id] = settleTimers[id]
               /\ session'[id].resizeDebounceTimeout = session[id].resizeDebounceTimeout
       /\ (DataArrives(id) /\ last.op = "resize" /\ last.id = id
             /\ ~last.suppressOutput /\ ~session[id].resizeInProgress)
            => EntersNormalPath(id)]_vars

\* a resize with suppressOutput=false has succeeded on a session that has
\* accepted output: the flag is clear and no settle timer is outstanding
C18_Witness ==
  /\ FirstId \in sessions
  /\ last = Call("resize", FirstId, "true")
  /\ accepted[FirstId] # EmptyStr
  /\ ~session[FirstId].resizeInProgress
  /\ settleTimers[FirstId] = 0
  /\ session[FirstId].resizeDebounceTimeout = "null"

\* C19 (as claimed): after a flush, pendingOutput holds at most
\* OUTPUT_BATCH_SIZE characters.
C19_AsClaimed ==
  [][\A id \in Ids :
       FlushRuns(id) => StrLen(session'[id].outputBuffer) <= OUTPUT_BATCH_SIZE]_vars

\* C19 (amended): a flush shortens pendingOutput by OUTPUT_BATCH_SIZE
\* characters or empties it: with more than OUTPUT_BATCH_SIZE characters
\* pending it leaves all but the first OUTPUT_BATCH_SIZE (which may again
\* be more than OUTPUT_BATCH_SIZE) and exactly one flush scheduled,
\* otherwise it leaves pendingOutput empty and no flush scheduled.
C19_FlushDrainsOrContinues ==
  [][\A id \in Ids :
       FlushRuns(id) =>
         LET buf == session[id].outputBuffer
             n == StrLen(buf)
             rest == session'[id].outputBuffer
         IN  /\ n > OUTPUT_BATCH_SIZE
                  => /\ StrLen(rest) = n - OUTPUT_BATCH_SIZE
                     /\ rest = SliceFrom(buf, OUTPUT_BATCH_SIZE)
                     /\ flushTimers'[id] = 1
             /\ n <= OUTPUT_BATCH_SIZE
                  => /\ rest = EmptyStr
                     /\ flushTimers'[id] = 0
             /\ StrLen(rest) > OUTPUT_BATCH_SIZE => flushTimers'[id] = 1]_vars

\* a flush of 10000 pending characters has left 5904, more than the
\* threshold, with a flush scheduled
C19_Witness ==
  /\ last = Call("flushOutput", FirstId, "void")
  /\ StrLen(session[FirstId].outputBuffer) = 10000 - OUTPUT_BATCH_SIZE
  /\ StrLen(session[FirstId].outputBuffer) > OUTPUT_BATCH_SIZE
  /\ flushTimers[FirstId] = 1

\* C20: for an id without an entry, write, resize and killSession return
\* false and getScrollback and getScrollbackAndClearPending return null;
\* none throws, and the registry, every session, every process and every
\* timer are as before.
C20_UnknownIdNoEffect ==
  [][\A id \in Ids :
       (id \notin sessions
          /\ CallOn(id, {"write", "resize", "killSession", "getScrollback",
                         "getScrollbackAndClearPending"}))
          => /\ last'.result =
                  IF last'.op \in {"write", "resize", "killSession"}
                  THEN "false" ELSE "null"
             /\ UNCHANGED <<sessions, session, maxSessions, nextId, pty,
                            flushTimers, settleTimers, produced, chunks,
                            accepted, dropped, discarded, delivered, exits,
                            killed, exitCallbacks, written>>]_vars

\* getScrollback on the unknown id has returned null while the first
\* session is live with scrollback, forwarded input and both timers running
C20_Witness ==
  /\ last = Call("getScrollback", UnknownId, "null")
  /\ FirstId \in sessions
  /\ session[FirstId].scrollbackBuffer # EmptyStr
  /\ written[FirstId] = 1
  /\ flushTimers[FirstId] = 1
  /\ settleTimers[FirstId] = 1

(* ------------------------- creation and the limit ----------------------- *)
\* C21: when pty.spawn raises inside createSession the call fails and the
\* service is as before it: no entry is inserted, the number of sessions is
\* the same, no session object, process, timer or callback has been added.
C21_FailedSpawnLeavesRegistry ==
  [][(last'.op = "createSession" /\ last'.result = "threw")
       => /\ last'.id = NoId
          /\ Cardinality(sessions') = Cardinality(sessions)
          /\ UNCHANGED <<sessions, session, meta, pty, flushTimers,
                         settleTimers, dataCallbacks, exitCallbacks,
                         maxSessions>>]_vars

\* a spawn has failed while one session is live and there is room for more
C21_Witness ==
  /\ last.op = "createSession"
  /\ last.result = "threw"
  /\ Cardinality(sessions) = 1
  /\ maxSessions > 1

\* C22: setMaxSessions(limit) keeps the maximum when limit is below 1 or
\* above 500 and sets it to limit otherwise; the sessions are untouched
\* either way.
C22_SetMaxSessionsValidates ==
  [][last'.op = "setMaxSessions"
       => /\ maxSessions' = IF last'.limit < 1 \/ last'.limit > 500
                             THEN maxSessions ELSE last'.limit
          /\ UNCHANGED <<sessions, session, meta, pty, flushTimers,
                         settleTimers>>]_vars

\* setMaxSessions(501) has been rejected with a session live: the maximum
\* is still the 2 it was given before
C22_Witness ==
  /\ last.op = "setMaxSessions"
  /\ last.limit = 501
  /\ maxSessions = 2
  /\ sessions # {}

\* C23 as stated: the maximum lies in [1, 500] in every reachable state,
\* the initial one included.
C23_AsClaimed == maxSessions \in MIN_MAX_SESSIONS..MAX_MAX_SESSIONS

\* C23: the maximum changes only in a setMaxSessions(limit) whose limit is
\* in [1, 500], and then becomes limit; so once it is in the range it stays
\* there.  The initial value, parsed from TERMINAL_MAX_SESSIONS or the
\* default 1000, is not validated against the range.
C23_LimitValidatedOnChange ==
  [][/\ maxSessions' # maxSessions
          => /\ last'.op = "setMaxSessions"
             /\ maxSessions' = last'.limit
             /\ maxSessions' \in MIN_MAX_SESSIONS..MAX_MAX_SESSIONS
     /\ maxSessions \in MIN_MAX_SESSIONS..MAX_MAX_SESSIONS
          => maxSessions' \in MIN_MAX_SESSIONS..MAX_MAX_SESSIONS]_vars

\* the default of 1000 is still in force after setMaxSessions(0) was
\* rejected
C23_Witness ==
  /\ maxSessions = DEFAULT_MAX_SESSIONS
  /\ last.op = "setMaxSessions"
  /\ last.limit = 0

\* C24 as stated: a createSession that succeeds raises the number of
\* sessions by one; its id is the id of no live and of no earlier session,
\* no entry is replaced, and the new session has empty scrollback and
\* pending output, no flush timer, no settle timer and the flag false.
C24_AsClaimed ==
  [][(last'.op = "createSession" /\ last'.result = "session")
       => /\ Cardinality(sessions') = Cardinality(sessions) + 1
          /\ last'.id \notin sessions
          /\ pty[last'.id] = "none"
          /\ \A id \in sessions : session'[id] = session[id] /\ meta'[id] = meta[id]
          /\ session'[last'.id] = NewSession
          /\ flushTimers'[last'.id] = 0
          /\ settleTimers'[last'.id] = 0]_vars

(* ------------------------------ subscribers ----------------------------- *)
\* C25: a data event of any session is handed to every callback in
\* dataCallbacks as it is at that moment, and an exit notification of any
\* session to every callback in exitCallbacks; the function onData or
\* onExit returned takes its callback out of the set, and the sets change
\* in no other way than by subscribing and unsubscribing, so a callback
\* that was taken out receives no later event.
C25_AllSubscribersNotified ==
  [][/\ \A id \in Ids :
          /\ (FlushRuns(id) /\ delivered'[id] # delivered[id])
                => last'.to = dataCallbacks
          /\ ExitRuns(id)
                => exits'[id][Len(exits'[id])].to = exitCallbacks
     /\ last'.op = "unsubscribeData"
          => dataCallbacks' = dataCallbacks \ {last'.cb}
     /\ last'.op = "unsubscribeExit"
          => exitCallbacks' = exitCallbacks \ {last'.cb}
     /\ dataCallbacks' # dataCallbacks
          => last'.op \in {"subscribeData", "unsubscribeData"}
     /\ exitCallbacks' # exitCallbacks
          => last'.op \in {"subscribeExit", "unsubscribeExit"}]_vars

\* the exit of the first session was notified to both exit callbacks; the
\* data callback b has unsubscribed, and a data event of the second session
\* has just been handed to a alone
C25_Witness ==
  /\ exits[FirstId] # << >>
  /\ exits[FirstId][1].to = Callbacks
  /\ last.op = "flushOutput"
  /\ last.id = SecondId
  /\ delivered[SecondId] # << >>
  /\ last.to = {"a"}
  /\ dataCallbacks = {"a"}

(* --------------------------- write, getScrollback ----------------------- *)
\* C26: write(id, data) on a registered session hands data to the process
\* once and returns true, whether or not the flag is set; the scrollback,
\* the pending output, both timers, the flag and the registry are as
\* before.
C26_WriteForwardsOnce ==
  [][\A id \in Ids :
       (id \in sessions /\ CallOn(id, {"write"}))
          => /\ last'.result = "true"
             /\ written' = [written EXCEPT ![id] = written[id] + 1]
             /\ UNCHANGED <<sessions, session, meta, pty, flushTimers,
                            settleTimers, delivered, exits, maxSessions>>]_vars

\* a write has returned true and reached the process once, in the window
\* of a resize, with scrollback, pending output and both timers in place
C26_Witness ==
  /\ last = Call("write", FirstId, "true")
  /\ written[FirstId] = 1
  /\ session[FirstId].resizeInProgress
  /\ session[FirstId].scrollbackBuffer # EmptyStr
  /\ session[FirstId].outputBuffer # EmptyStr
  /\ flushTimers[FirstId] = 1
  /\ settleTimers[FirstId] = 1

\* C27 as stated: getScrollback(id) returns null exactly when id has no
\* entry; for a registered session, also one without output so far, it
\* returns the scrollback of that session, and it changes nothing.
C27_AsClaimed ==
  [][\A id \in Ids :
       CallOn(id, {"getScrollback"})
          => /\ (last'.result = "null") <=> (id \notin sessions)
             /\ id \in sessions
                  => /\ last'.result = "string"
                     /\ last'.value = session[id].scrollbackBuffer
             /\ UNCHANGED <<sessions, session, meta, pty, flushTimers,
                            settleTimers, delivered, exits, written,
                            maxSessions>>]_vars

(* ------------------------- working directory, shell --------------------- *)
\* C28: the working directory of a session that createSession inserts is
\* the home directory when no cwd was requested or when the cleaned path is
\* missing, is not a directory or may not be inspected, and the cleaned
\* requested path when it is a directory; a bad cwd never makes the call
\* fail: with room and a process that spawns, the session is inserted with
\* the home directory.
C28_CwdFallsBackToHome ==
  [][(last'.op = "createSession" /\ last'.result = "session")
       => /\ last'.id \in sessions'
          /\ meta'[last'.id].cwd =
               IF last'.requestedCwd # << >> /\ last'.stat = "directory"
               THEN CleanPath(last'.requestedCwd)
               ELSE homeDir
          /\ last'.stat \in {"file", "missing", "denied", "none"}
               => meta'[last'.id].cwd = homeDir]_vars

\* a session has been created with the cwd "//p", where a file is found:
\* it is registered and its working directory is the home directory
C28_Witness ==
  /\ last.op = "createSession"
  /\ last.result = "session"
  /\ last.requestedCwd = <<"/", "/", "p">>
  /\ last.stat = "file"
  /\ last.id \in sessions
  /\ meta[last.id].cwd = homeDir

\* C29 as stated: on Linux, WSL and macOS, whatever SHELL is and whichever
\* shell files exist, the argument list detectShell returns is ["--login"].
C29_AsClaimed ==
  (last.op = "detectShell" /\ host.platform \in {"linux", "darwin"})
     => last.args = <<"--login">>

\* the last resort of the Linux branch is taken: not WSL, no usable SHELL,
\* no /bin/bash
LastResort ==
  /\ host.platform \notin {"win32", "darwin"}
  /\ ~(host.platform = "linux" /\ isWSL(host))
  /\ host.SHELL = "" \/ host.SHELL \notin host.exists
  /\ "/bin/bash" \notin host.exists

\* C29: off Windows the argument list detectShell returns is ["--login"]
\* for every shell it selects except the last resort of the Linux branch,
\* /bin/sh, which is returned with no arguments when neither the SHELL of
\* the user nor /bin/bash is found; on Windows the list is empty.
C29_LoginArgsExceptLastResort ==
  last.op = "detectShell"
     => /\ host.platform # "win32"
             => last.args = IF last.result = "/bin/sh" THEN << >> ELSE <<"--login">>
        /\ host.platform = "win32" => last.args = << >>
        /\ last.result = "/bin/sh" <=> LastResort

\* on a Linux host that is not WSL, with fish as SHELL and bash installed,
\* detectShell has returned fish as a login shell
C29_Witness ==
  /\ last.op = "detectShell"
  /\ host = PlainLinux
  /\ last.result = "/usr/bin/fish"
  /\ last.args = <<"--login">>

\* a Microsoft or WSL marker in the text of /proc/version, or one of the
\* two environment variables set
WSLMarkers ==
  \/ host.procVersion \in {"Linux version 4.4.0-19041-Microsoft",
                            "Linux version 5.15.153.1-microsoft-standard-WSL2",
                            "Linux version 6.6.36-WSL2-custom"}
  \/ host.WSL_DISTRO_NAME # ""
  \/ host.WSLENV # ""

\* C30 as stated: isWSL returns true when /proc/version has a Microsoft or
\* WSL marker or WSL_DISTRO_NAME or WSLENV is set, and false otherwise; on
\* Linux detectShell takes the WSL branch (which answers /bin/bash even
\* when no shell file is found) in exactly that case.
C30_AsClaimed ==
  /\ last.op = "isWSL" => (last.result = "true" <=> WSLMarkers)
  /\ (/\ last.op = "detectShell"
      /\ host.platform = "linux"
      /\ host.exists \cap {"/usr/bin/fish", "/bin/bash"} = {})
        => (last.result = "/bin/bash" <=> WSLMarkers)

(* ------------------------------- progress ------------------------------- *)
\* output is waiting in outputBuffer of id
Pending(id) == session[id].outputBuffer # EmptyStr

\* C31 as stated: when timers fire, output that was accepted for a session
\* which stays registered does not wait in outputBuffer for ever: the buffer
\* is emptied again, by flushes that deliver it (or by an attach).
C31_AsClaimed ==
  \A id \in Ids :
    (id \in sessions /\ Pending(id)) ~> (~Pending(id) \/ id \notin sessions)

\* C32: a registered session whose flag is set has a settle timer
\* outstanding, whatever resizes succeeded or failed before; so when timers
\* fire and resizes come to an end, the flag of a session that stays
\* registered is cleared again.
C32_NeverStuckSuppressed ==
  /\ [](\A id \in Ids :
          (id \in sessions /\ session[id].resizeInProgress)
             => /\ settleTimers[id] > 0
                /\ session[id].resizeDebounceTimeout = "armed")
  /\ <>[][last'.op # "resize"]_vars
       => \A id \in Ids :
            (id \in sessions /\ session[id].resizeInProgress)
               ~> (~session[id].resizeInProgress \/ id \notin sessions)

\* a suppressing resize has failed on a session whose flag was set by an
\* earlier one: the flag is clear, and the session is registered
C32_Witness ==
  /\ last.op = "resize"
  /\ last.suppressOutput
  /\ last.result = "false"
  /\ FirstId \in sessions
  /\ ~session[FirstId].resizeInProgress
  /\ dropped[FirstId] # EmptyStr

\* C36 as stated: for a registered session, whatever chunks (empty ones
\* included), flushes and attaches came before, a flush timer is
\* outstanding whenever outputBuffer is not empty, and flushTimeout holds a
\* handle only while its timer is outstanding.
C36_AsClaimed ==
  \A id \in sessions :
    /\ Pending(id) => flushTimers[id] > 0
    /\ session[id].flushTimeout # "null" => flushTimers[id] > 0

(* --------------------------- frame conditions --------------------------- *)
\* C33: an entry enters the registry only in a createSession that succeeds
\* and leaves it only in killSession, in the exit of its process or in
\* cleanup; write, resize, getScrollback, getScrollbackAndClearPending,
\* setMaxSessions (also below the number of sessions), subscribing and
\* unsubscribing, arriving output and flush and settle timers leave the
\* registry as it is.
C33_MembershipFrame ==
  [][/\ \A id \in Ids :
          /\ (id \notin sessions /\ id \in sessions')
                => /\ last'.op = "createSession"
                   /\ last'.result = "session"
                   /\ last'.id = id
          /\ (id \in sessions /\ id \notin sessions')
                => \/ last'.op \in {"killSession", "onExit"} /\ last'.id = id
                   \/ last'.op = "cleanup"
     /\ last'.op \in {"write", "resize", "getScrollback",
                      "getScrollbackAndClearPending", "setMaxSessions",
                      "subscribeData", "unsubscribeData", "subscribeExit",
                      "unsubscribeExit", "onData", "flushOutput", "settle"}
          => sessions' = sessions]_vars

\* setMaxSessions(1) has been accepted while two sessions are registered:
\* both are still there
C33_Witness ==
  /\ last.op = "setMaxSessions"
  /\ maxSessions = 1
  /\ sessions = {FirstId, SecondId}
  /\ flushTimers[FirstId] = 1

\* C34: a chunk that is accepted is in scrollbackBuffer (cut to its last
\* MAX_SCROLLBACK_SIZE characters) at the end of the step in which it
\* arrives, with no data event sent yet; and scrollbackBuffer changes in no
\* other step: not when a flush fires, not in write, resize, getScrollback or
\* getScrollbackAndClearPending.
C34_ScrollbackIndependentOfFlush ==
  [][\A id \in Ids :
       /\ (DataArrives(id) /\ ~session[id].resizeInProgress)
            => /\ session'[id].scrollbackBuffer =
                    SliceLast(StrCat(session[id].scrollbackBuffer, ArrivedChunk(id)),
                              MAX_SCROLLBACK_SIZE)
               /\ delivered' = delivered
       /\ session'[id].scrollbackBuffer # session[id].scrollbackBuffer
            => DataArrives(id) /\ ~session[id].resizeInProgress]_vars

\* the first flush has delivered one batch of a chunk: the rest of it is
\* pending, and the scrollback holds the whole chunk
C34_Witness ==
  /\ last.op = "flushOutput"
  /\ FirstId \in sessions
  /\ Len(delivered[FirstId]) = 1
  /\ Pending(FirstId)
  /\ session[FirstId].scrollbackBuffer = accepted[FirstId]
  /\ StrLen(accepted[FirstId]) = SmallChunk

\* C35: getScrollbackAndClearPending leaves the flag and the settle timer
\* of the session as they are, so it neither opens nor closes a
\* suppression window; a chunk that arrives right after it on a session
\* whose flag is clear is accepted.
C35_AttachLeavesSuppression ==
  [][\A id \in Ids :
       /\ Attaches(id)
            => /\ session'[id].resizeInProgress = session[id].resizeInProgress
               /\ session'[id].resizeDebounceTimeout = session[id].resizeDebounceTimeout
               /\ settleTimers' = settleTimers
       /\ (/\ DataArrives(id)
           /\ last.op = "getScrollbackAndClearPending"
           /\ last.id = id
           /\ ~session[id].resizeInProgress)
            => /\ accepted'[id] = StrCat(accepted[id], ArrivedChunk(id))
               /\ dropped' = dropped]_vars

\* a viewer has attached inside a suppression window, with output of the
\* session pending: the flag is still set and the settle timer still runs
C35_Witness ==
  /\ last.op = "getScrollbackAndClearPending"
  /\ last.id = FirstId
  /\ FirstId \in sessions
  /\ discarded[FirstId] # EmptyStr
  /\ session[FirstId].resizeInProgress
  /\ settleTimers[FirstId] = 1

(* ---------------------------- the end of sessions ----------------------- *)
\* C37: the exit subscribers are notified at most once for an id, and only
\* in the exit handler of its process: killSession and cleanup notify
\* nobody; an exit that arrives when killSession has already removed the
\* entry is still notified, once, and the entries of the other sessions
\* stay.
C37_ExitNotifiedOnce ==
  [][\A id \in Ids :
       /\ exits'[id] # exits[id]
            => /\ ExitRuns(id)
               /\ exits[id] = << >>
       /\ ExitRuns(id)
            => /\ Len(exits'[id]) = 1
               /\ exits'[id][1].to = exitCallbacks
               /\ sessions' = sessions \ {id}
               /\ \A other \in Ids \ {id} : exits'[other] = exits[other]
       /\ last'.op \in {"killSession", "cleanup"} => exits' = exits]_vars

\* the first session was killed and the exit of its process has then been
\* notified to the subscriber, once; the second session is still registered
C37_Witness ==
  /\ last.op = "onExit"
  /\ last.id = FirstId
  /\ FirstId \in killed
  /\ Len(exits[FirstId]) = 1
  /\ exits[FirstId][1].to = {Subscriber}
  /\ SecondId \in sessions
  /\ exits[SecondId] = << >>

\* C39 as stated: when cleanup has returned the registry is empty, however
\* many sessions there were and whichever pty.kill raised, and none of the
\* sessions it removed has a flush timer or a settle timer outstanding.
C39_AsClaimed ==
  [][last'.op = "cleanup"
       => /\ sessions' = {}
          /\ \A id \in sessions :
               /\ flushTimers'[id] = 0
               /\ settleTimers'[id] = 0]_vars

(* -------------------------------- isolation ----------------------------- *)
\* C38: output arriving, a flush or settle timer firing, write, resize,
\* getScrollbackAndClearPending, killSession and the exit of the process of
\* one session leave the buffers, the timers, the flag and the registration
\* of every other session as they are; the data event of a flush of a
\* session is recorded under its id and is the head of its own
\* outputBuffer, which grows only by the chunks of its own process.
C38_SessionsIsolated ==
  [][\A a \in Ids :
       (last'.id = a /\ last'.op \in {"onData", "flushOutput", "settle", "write",
                                       "resize", "getScrollbackAndClearPending",
                                       "killSession", "onExit"})
          => /\ \A b \in Ids \ {a} :
                  /\ session'[b] = session[b]
                  /\ flushTimers'[b] = flushTimers[b]
                  /\ settleTimers'[b] = settleTimers[b]
                  /\ (b \in sessions') <=> (b \in sessions)
                  /\ delivered'[b] = delivered[b]
                  /\ produced'[b] = produced[b]
             /\ delivered'[a] # delivered[a]
                  => /\ last'.op = "flushOutput"
                     /\ delivered'[a] =
                          Append(delivered[a],
                                 SliceTo(session[a].outputBuffer, OUTPUT_BATCH_SIZE))
             /\ StrLen(session'[a].outputBuffer) > StrLen(session[a].outputBuffer)
                  => /\ last'.op = "onData"
                     /\ session'[a].outputBuffer =
                          StrCat(session[a].outputBuffer, ArrivedChunk(a))]_vars

\* a flush of the first session has sent a data event while the second
\* session, in a suppression window, has output pending and both its timers
\* running
C38_Witness ==
  /\ last.op = "flushOutput"
  /\ last.id = FirstId
  /\ delivered[FirstId] # << >>
  /\ delivered[SecondId] = << >>
  /\ SecondId \in sessions
  /\ Pending(SecondId)
  /\ session[SecondId].resizeInProgress
  /\ flushTimers[SecondId] = 1
  /\ settleTimers[SecondId] = 1

====
